---- MODULE Spec2Model ----
(***************************************************************************)
(* Model of the vehicle-parts scraper: the shared browser acquirer         *)
(* launch_browser_with_fallback (utils/helpers.py) and the scrape()        *)
(* routines of the three site scrapers that call it; the programs that run *)
(* the scrapers (cli_menu.py, run_scrapers.py, scheduler.py); and, each    *)
(* under a specification of its own, the scroll loop, the Isaco card loop  *)
(* and the dates of the saved file.                                        *)
(*                                                                         *)
(* Text (page titles, body text) is modelled as sequences of one-character *)
(* strings so that lower() and the substring test are computed.            *)
(* Exceptions are modelled by their class: "PWTimeout" (playwright         *)
(* TimeoutError), "Error" (any other subclass of Exception) and            *)
(* "NameError".  Interrupts that are not subclasses of Exception           *)
(* (KeyboardInterrupt, task cancellation) are outside the model.           *)
(***************************************************************************)
EXTENDS Integers, Sequences, FiniteSets, TLC

\* ------------------------------------------------------------------------
\* Bounds of the model
\* ------------------------------------------------------------------------
MaxEngines == 3

MaxRows == 2

\* heights a page reports: 0..MaxHeight
MaxHeight == 2

\* how often a page's height changes before it stops changing
MaxChanges == 2

\* product cards on the Isaco page: 0..MaxCards
MaxCards == 3

\* midnights that pass while one scrape() runs: 0..MaxMidnights
MaxMidnights == 1

\* ------------------------------------------------------------------------
\* Program constants
\* ------------------------------------------------------------------------
EngineIds == {"chromium", "firefox", "webkit"}

BROWSER_FALLBACK == <<"chromium", "firefox">>

CLOUDFLARE_TITLE == <<"C", "l", "o", "u", "d", "f", "l", "a", "r", "e">>

JustAMoment == <<"j", "u", "s", "t", " ", "a", " ", "m", "o", "m", "e", "n", "t">>

CheckingYourBrowser == <<"c", "h", "e", "c", "k", "i", "n", "g", " ", "y", "o", "u", "r", " ", "b", "r", "o", "w", "s", "e", "r">>

MinBodyLen == 1000

NumInitScripts == 5

NavRetries == 3

\* None, for the handles (browser, page, context); handles are the positive
\* positions of the engine list.
None == 0

NoException == "NoException"

Sites == {"isaco", "ikcopart", "sapia_stopyadak"}

\* (the Isaco URL ends in a Persian path segment, written here in ASCII)
START_URL(s) ==
    CASE s = "isaco" -> "https://www.isaco.ir/parts"
      [] s = "ikcopart" -> "https://ikcopart.com/shop/"
      [] s = "sapia_stopyadak" -> "https://stopyadak.com/Products/NewProducts"

\* Names bound in a scraper module by
\* "from utils.helpers import ..., launch_browser_with_fallback".
ImportedNames(s) == {"setup_logging", "save_to_csv", "get_current_date_str", "launch_browser_with_fallback"}

\* The name each scrape() calls to obtain its session.
AcquirerCallName(s) ==
    IF s = "ikcopart" THEN "launch_browserfallback" ELSE "launch_browser_with_fallback"

\* ------------------------------------------------------------------------
\* Text: str.lower(), the "in" substring test, len()
\* ------------------------------------------------------------------------
UpperLetters == <<"A", "B", "C", "D", "E", "F", "G", "H", "I", "J", "K", "L", "M", "N", "O", "P", "Q", "R", "S", "T", "U", "V", "W", "X", "Y", "Z">>

LowerLetters == <<"a", "b", "c", "d", "e", "f", "g", "h", "i", "j", "k", "l", "m", "n", "o", "p", "q", "r", "s", "t", "u", "v", "w", "x", "y", "z">>

UpperSet == {UpperLetters[k] : k \in 1..Len(UpperLetters)}

LowerOf == [c \in UpperSet |-> LowerLetters[CHOOSE k \in 1..Len(UpperLetters) : UpperLetters[k] = c]]

\* str.lower() on one character (ASCII letters; other characters are kept)
LowerChar(c) == IF c \in UpperSet THEN LowerOf[c] ELSE c

Lower(s) == [k \in 1..Len(s) |-> LowerChar(s[k])]

\* needle in hay
Contains(hay, needle) ==
    \E k \in 0..(Len(hay) - Len(needle)) :
        \A m \in 1..Len(needle) : hay[k + m] = needle[m]

\* A body text is kept as its leading text followed by pad filler characters;
\* BodyText is the string page.text_content("body") returns.
Filler == "x"

BodyText(b) == b.head \o [k \in 1..b.pad |-> Filler]

NoBody == [head |-> <<"N", "o", "n", "e">>, pad |-> -1]

\* body = await page.text_content("body") or ""
BodyOrEmpty(b) == IF b = NoBody THEN <<>> ELSE BodyText(b)

IsBlockedIgnoresTitle(title, text) ==
    \/ Contains(Lower(title), JustAMoment)
    \/ Contains(Lower(text), CheckingYourBrowser)
    \/ Len(text) < MinBodyLen

IsBlockedIgnoresLength(title, text) ==
    \/ Contains(Lower(title), Lower(CLOUDFLARE_TITLE))
    \/ Contains(Lower(title), JustAMoment)
    \/ Contains(Lower(text), CheckingYourBrowser)

\* The block test of the acquirer, on the title and the body text.
IsBlocked(title, text) ==
    \/ Contains(Lower(title), Lower(CLOUDFLARE_TITLE))
    \/ Contains(Lower(title), JustAMoment)
    \/ Contains(Lower(text), CheckingYourBrowser)
    \/ Len(text) < MinBodyLen

\* ------------------------------------------------------------------------
\* Inputs: what the site answers
\* ------------------------------------------------------------------------
TitleShop == <<"S", "h", "o", "p">>

TitleCloudflare == <<"C", "l", "o", "u", "d", "f", "l", "a", "r", "e">>

TitleUpperCloudflare == <<"A", "t", "t", "e", "n", "t", "i", "o", "n", " ", "|", " ", "C", "L", "O", "U", "D", "F", "L", "A", "R", "E">>

TitleJustAMoment == <<"J", "u", "s", "t", " ", "a", " ", "m", "o", "m", "e", "n", "t", ".", ".", ".">>

TitleNearMiss == <<"c", "l", "o", "u", "d", "f", "l", "a", "r">>

NoTitle == <<"-">>

Titles == {TitleShop, TitleCloudflare, TitleUpperCloudflare, TitleJustAMoment, TitleNearMiss, <<>>}

HeadChecking == <<"C", "h", "e", "c", "k", "i", "n", "g", " ", "Y", "o", "u", "r", " ", "B", "r", "o", "w", "s", "e", "r">>

HeadNearMiss == <<"c", "h", "e", "c", "k", "i", "n", "g", " ", "y", "o", "u", "r", " ", "b", "r", "o", "w", "s", "e">>

Bodies ==
    { NoBody,
      [head |-> <<>>, pad |-> 0],
      [head |-> <<>>, pad |-> MinBodyLen - 1],
      [head |-> <<>>, pad |-> MinBodyLen],
      [head |-> HeadNearMiss, pad |-> MinBodyLen],
      [head |-> HeadChecking, pad |-> MinBodyLen] }

\* ------------------------------------------------------------------------
\* State
\* ------------------------------------------------------------------------
VARIABLES
    site,        \* the scraper whose scrape() runs
    engines,     \* the fallback list the acquirer iterates over
    spc,         \* position of scrape()
    apc,         \* position of launch_browser_with_fallback
    i,           \* index of the current engine in the list (0 before the loop)
    browser,     \* the acquirer's local "browser": None or the browser launched
    scripts,     \* init scripts injected into the current page
    title,       \* title read in the current attempt
    body,        \* body read in the current attempt
    closing,     \* the close call of the attempt just handled: "none", "returned", "raised"
    exc,         \* class of the exception being handled or raised
    tried,       \* engines whose launch was attempted, in order           (history)
    outcome,     \* per list position: how its attempt ended               (history)
    closes,      \* per list position: browser.close() invocations         (history)
    result,      \* what the acquirer returned: [page, context]
    acqCalls,    \* invocations of launch_browser_with_fallback by scrape()
    acqUrl,      \* the start_url argument of the invocation
    pageCalls,   \* uses of the page or context by scrape()
    navAttempts, \* navigation attempts made by scrape()
    rows,        \* len(all_data)
    csv,         \* save_to_csv wrote the CSV file
    backup,      \* the backup copy was written
    path,        \* how scrape() reached its exit
    steps,       \* calls made by the current engine attempt, in order    (history)
    open,        \* browsers launched whose close was never invoked       (history)
    \* the program that was started, and its run of the scrapers
    orch,        \* the function that runs the scrapers
    choice,      \* cli_menu.main: the choice read from argv or the menu
    plan,        \* the scrapers it is to run, in order
    opos,        \* how many of them it is through with
    opc,         \* its position
    started,     \* the scrapers whose scrape() was started, in order     (history)
    caught,      \* exceptions caught by run_scraper                      (history)
    served,      \* the scrapers that obtained a session                  (history)
    \* a call of scroll_and_load_all / scroll_and_load
    scrollFn,    \* which of the two was called
    scrollPc,    \* its position
    prev_height,
    stable_rounds,
    scrolls,     \* window.scrollTo calls made                            (history)
    obs,         \* the heights read, one per round                       (history)
    budget,      \* changes of height the page still has in it
    \* the card loop of the Isaco scrape()
    nCards,      \* len(cards)
    cardIdx,     \* idx
    cardPc,      \* position in the loop body
    tabs,        \* detail tabs opened and not closed, by card
    closedTabs,  \* cards whose tab had close() invoked                (history)
    failedCards, \* cards that ended in the except block               (history)
    \* the dates and files of one scrape()
    datePrefix,  \* "isaco", "ikcopart" or "sapia_stopyadak"
    datePc,      \* position
    clock,       \* the calendar date now
    midnights,   \* midnights passed since scrape() began
    today,       \* scrape()'s local `today`
    dateRows,    \* len(all_data); every row has scrape_date = today
    files,       \* files in output/, by (prefix, date in the name)
    written,     \* the file save_to_csv wrote
    reported,    \* csv_path: logged as saved, and the source of the copy
    copied       \* the file that backups/ received a copy of

orchVars == <<orch, choice, plan, opos, opc, started, caught, served>>

scrollVars == <<scrollFn, scrollPc, prev_height, stable_rounds, scrolls, obs, budget>>

\* the helper loops, which the model runs on their own
cardVars == <<nCards, cardIdx, cardPc, tabs, closedTabs, failedCards>>

dateVars == <<datePrefix, datePc, clock, midnights, today, dateRows, files, written,
              reported, copied>>

NoDate == <<>>

NoFile == <<"none", NoDate>>

Date(y, m, d) == [year |-> y, month |-> m, day |-> d]

auxVars == <<scrollVars, cardVars, dateVars>>

vars == <<site, engines, spc, apc, i, browser, scripts, title, body, closing, exc,
          tried, outcome, closes, result, acqCalls, acqUrl, pageCalls,
          navAttempts, rows, csv, backup, path, steps, open, orchVars, auxVars>>

\* what no step of scrape() or of the acquirer changes
env == <<engines, site, orchVars, auxVars>>

\* no scroll loop is being run
ScrollIdle ==
    /\ scrollFn = "none"
    /\ scrollPc = "idle"
    /\ prev_height = 0
    /\ stable_rounds = 0
    /\ scrolls = 0
    /\ obs = <<>>
    /\ budget = 0

\* the card loop is not being run
CardsIdle ==
    /\ nCards = 0
    /\ cardIdx = 0
    /\ cardPc = "idle"
    /\ tabs = {}
    /\ closedTabs = {}
    /\ failedCards = {}

\* no file is being saved
DatesIdle ==
    /\ datePrefix = "none"
    /\ datePc = "idle"
    /\ clock = Date(2025, 11, 9)
    /\ midnights = 0
    /\ today = NoDate
    /\ dateRows = 0
    /\ files = {}
    /\ written = NoFile
    /\ reported = NoFile
    /\ copied = NoFile

\* no helper loop is being run
AuxIdle == ScrollIdle /\ CardsIdle /\ DatesIdle

acqLocals == <<i, browser, scripts, title, body, closing, steps>>

acqHistory == <<tried, outcome, closes, open>>

scrapeVars == <<spc, acqCalls, acqUrl, pageCalls, navAttempts, rows, csv, backup, path>>

NoChoice == <<"-">>

NoSite == "none"

NoSession == [page |-> None, context |-> None]

\* The browser launched at list position k, and the page and context made
\* from it, are all identified by k.
Session(k) == [page |-> k, context |-> k]

\* The engines in the order playwright lists them.
BaseOrder == <<"chromium", "firefox", "webkit">>

\* The list of length n that starts at BaseOrder[r + 1] and goes round.
Rotation(r, n) == [k \in 1..n |-> BaseOrder[((k + r - 1) % Len(BaseOrder)) + 1]]

\* Ordered engine lists of length 1..MaxEngines (BROWSER_FALLBACK is one).
EngineLists ==
    { Rotation(r, n) : r \in 0..(Len(BaseOrder) - 1), n \in 1..MaxEngines }

\* A scraper module run directly: asyncio.run(scrape()).
Init ==
    /\ site \in Sites
    /\ engines \in EngineLists \cup {BROWSER_FALLBACK}
    /\ spc = "start"
    /\ apc = "idle"
    /\ i = 0
    /\ browser = None
    /\ scripts = 0
    /\ title = NoTitle
    /\ body = NoBody
    /\ closing = "none"
    /\ exc = NoException
    /\ tried = <<>>
    /\ outcome = [k \in 1..Len(engines) |-> "untried"]
    /\ closes = [k \in 1..Len(engines) |-> 0]
    /\ result = NoSession
    /\ acqCalls = 0
    /\ acqUrl = ""
    /\ pageCalls = 0
    /\ navAttempts = 0
    /\ rows = 0
    /\ csv = FALSE
    /\ backup = FALSE
    /\ path = "running"
    /\ steps = <<>>
    /\ open = {}
    /\ orch = "scrape"
    /\ choice = NoChoice
    /\ plan = <<site>>
    /\ opos = 0
    /\ opc = "running"
    /\ started = <<site>>
    /\ caught = 0
    /\ served = {}
    /\ AuxIdle

\* ------------------------------------------------------------------------
\* launch_browser_with_fallback
\* ------------------------------------------------------------------------
\* A step of the try block raises: control passes to the except clause.
\* The attempt's outcome records what failed: "launch_failed",
\* "context_failed", "page_failed", "timeout" (navigation), "blocked", or
\* "error" for any other exception.
Raise(how, kind) ==
    /\ outcome' = [outcome EXCEPT ![i] = how]
    /\ exc' = kind
    /\ apc' = "except"

ForNextSkips(k) == k + 2

\* for browser_type in BROWSER_FALLBACK: the index of the next item
ForNext(k) == k + 1

\* The loop header: take the next engine, or fall out of the loop and
\* return (None, None).
AcqFor ==
    /\ apc = "for"
    /\ IF ForNext(i) <= Len(engines)
       THEN /\ i' = ForNext(i)
            /\ browser' = None
            /\ apc' = "launch"
            /\ UNCHANGED <<result>>
       ELSE /\ result' = NoSession
            /\ apc' = "returned"
            /\ UNCHANGED <<i, browser>>
    /\ closing' = "none"
    /\ UNCHANGED <<env, scripts, title, body, exc, steps, acqHistory, scrapeVars>>

\* browser = await p[browser_type].launch(...)
AcqLaunch ==
    /\ apc = "launch"
    /\ steps' = Append(steps, "launch")
    /\ tried' = Append(tried, engines[i])
    /\ \/ /\ browser' = i
          /\ open' = open \cup {<<site, i>>}
          /\ apc' = "new_context"
          /\ UNCHANGED <<outcome, exc>>
       \/ /\ Raise("launch_failed", "Error")
          /\ UNCHANGED <<browser, open>>
    /\ UNCHANGED <<env, i, scripts, title, body, closing, closes, result, scrapeVars>>

\* context = await browser.new_context(...)
AcqNewContext ==
    /\ apc = "new_context"
    /\ steps' = Append(steps, "new_context")
    /\ \/ /\ apc' = "new_page"
          /\ UNCHANGED <<outcome, exc>>
       \/ Raise("context_failed", "Error")
    /\ UNCHANGED <<env, i, browser, scripts, title, body, closing, tried, closes, open, result, scrapeVars>>

\* page = await context.new_page()
AcqNewPage ==
    /\ apc = "new_page"
    /\ steps' = Append(steps, "new_page")
    /\ \/ /\ apc' = "add_init_script"
          /\ scripts' = 0
          /\ UNCHANGED <<outcome, exc>>
       \/ /\ Raise("page_failed", "Error")
          /\ UNCHANGED scripts
    /\ UNCHANGED <<env, i, browser, title, body, closing, tried, closes, open, result, scrapeVars>>

AfterScriptStopsInjecting(n) == "wait_for_timeout"

\* after the n-th add_init_script call: the next one, or the human delay
AfterScript(n) == IF n = NumInitScripts THEN "wait_for_timeout" ELSE "add_init_script"

\* the five await page.add_init_script(...) calls, one per step
AcqAddInitScript ==
    /\ apc = "add_init_script"
    /\ steps' = Append(steps, "add_init_script")
    /\ \/ /\ scripts' = scripts + 1
          /\ apc' = AfterScript(scripts + 1)
          /\ UNCHANGED <<outcome, exc>>
       \/ /\ Raise("error", "Error")
          /\ UNCHANGED scripts
    /\ UNCHANGED <<env, i, browser, title, body, closing, tried, closes, open, result, scrapeVars>>

\* await page.wait_for_timeout(random.uniform(2000, 5000))
AcqDelay ==
    /\ apc = "wait_for_timeout"
    /\ steps' = Append(steps, "wait_for_timeout")
    /\ \/ /\ apc' = "goto"
          /\ UNCHANGED <<outcome, exc>>
       \/ Raise("error", "Error")
    /\ UNCHANGED <<env, i, browser, scripts, title, body, closing, tried, closes, open, result, scrapeVars>>

\* await page.goto(start_url, wait_until="domcontentloaded", timeout=TIMEOUT)
AcqGoto ==
    /\ apc = "goto"
    /\ steps' = Append(steps, "goto")
    /\ \/ /\ apc' = "title"
          /\ UNCHANGED <<outcome, exc>>
       \/ Raise("timeout", "PWTimeout")
       \/ Raise("error", "Error")
    /\ UNCHANGED <<env, i, browser, scripts, title, body, closing, tried, closes, open, result, scrapeVars>>

\* title = await page.title()
AcqTitle ==
    /\ apc = "title"
    /\ steps' = Append(steps, "title")
    /\ \/ /\ \E t \in Titles : title' = t
          /\ apc' = "text_content"
          /\ UNCHANGED <<outcome, exc>>
       \/ /\ Raise("error", "Error")
          /\ UNCHANGED title
    /\ UNCHANGED <<env, i, browser, scripts, body, closing, tried, closes, open, result, scrapeVars>>

\* body = await page.text_content("body") or ""
AcqBody ==
    /\ apc = "text_content"
    /\ steps' = Append(steps, "text_content")
    /\ \/ /\ \E b \in Bodies : body' = b
          /\ apc' = "inspect"
          /\ UNCHANGED <<outcome, exc>>
       \/ /\ Raise("error", "Error")
          /\ UNCHANGED body
    /\ UNCHANGED <<env, i, browser, scripts, title, closing, tried, closes, open, result, scrapeVars>>

ReturnsOnSuccessFallsThrough == "for"

\* where control goes when no block indicator fires: return page, context
ReturnsOnSuccess == "returned"

\* if (<block indicators>): raise PWTimeout("Anti-bot detected")
\* else: return page, context
\* (title and body are dead once inspected and are reset when the attempt
\* ends)
AcqInspect ==
    /\ apc = "inspect"
    /\ steps' = Append(steps, "inspect")
    /\ IF IsBlocked(title, BodyOrEmpty(body))
       THEN /\ Raise("blocked", "PWTimeout")
            /\ UNCHANGED <<result, title, body>>
       ELSE /\ outcome' = [outcome EXCEPT ![i] = "ok"]
            /\ apc' = ReturnsOnSuccess
            /\ result' = IF ReturnsOnSuccess = "returned" THEN Session(i) ELSE result
            /\ title' = NoTitle
            /\ body' = NoBody
            /\ UNCHANGED exc
    /\ UNCHANGED <<env, i, browser, scripts, closing, tried, closes, open, scrapeVars>>

CatchesOnlyTimeout(kind) == kind = "PWTimeout"

\* except Exception as e:
Catches(kind) == kind \in {"PWTimeout", "Error", "NameError"}

ShouldCloseNever(b) == FALSE

ShouldCloseOnlyAfterTimeout(b) == b # None /\ exc = "PWTimeout"

\* if browser:
ShouldClose(b) == b # None

\* The except clause: log, close the launched browser inside try/except: pass,
\* and go on with the loop (the attempt's title, body and script count are
\* dead from here on and are reset, and so is the record of its calls).  An exception the clause does not catch leaves
\* the acquirer and, there being no handler around the call, scrape() too.
AcqExcept ==
    /\ apc = "except"
    /\ IF Catches(exc)
       THEN /\ apc' = "for"
            /\ exc' = NoException
            /\ IF ShouldClose(browser)
               THEN /\ closes' = [closes EXCEPT ![browser] = @ + 1]
                    /\ open' = open \ {<<site, browser>>}
                    /\ closing' \in {"returned", "raised"}
               ELSE UNCHANGED <<closes, open, closing>>
            /\ UNCHANGED <<spc, path>>
       ELSE /\ apc' = "raised"
            /\ spc' = "raised"
            /\ path' = "acquirer_raised"
            /\ UNCHANGED <<exc, closes, open, closing>>
    /\ title' = NoTitle
    /\ body' = NoBody
    /\ scripts' = 0
    /\ steps' = <<>>
    /\ UNCHANGED <<env, i, browser, tried, outcome, result,
                   acqCalls, acqUrl, pageCalls, navAttempts, rows, csv, backup>>

\* ------------------------------------------------------------------------
\* scrape() of the three site scrapers
\* ------------------------------------------------------------------------
\* Python resolves the called name when the call is evaluated.
IsBound(s, name) == name \in ImportedNames(s)

\* page, context = await <acquirer>(p, START_URL), inside "async with" and
\* before the try block: an unbound name raises NameError out of scrape().
ScrapeAcquire ==
    /\ spc = "start"
    /\ IF IsBound(site, AcquirerCallName(site))
       THEN /\ acqCalls' = acqCalls + 1
            /\ acqUrl' = START_URL(site)
            /\ apc' = "for"
            /\ spc' = "acquire"
            /\ UNCHANGED <<exc, path>>
       ELSE /\ exc' = "NameError"
            /\ spc' = "raised"
            /\ path' = "name_error"
            /\ UNCHANGED <<acqCalls, acqUrl, apc>>
    /\ UNCHANGED <<env, acqLocals, acqHistory, result, pageCalls,
                   navAttempts, rows, csv, backup>>

AbortsNever(pg) == FALSE

\* if not page:
Aborts(pg) == pg = None

\* if not page: logger.error(...); return
ScrapeCheck ==
    /\ spc = "acquire"
    /\ apc = "returned"
    /\ IF Aborts(result.page)
       THEN /\ spc' = "returned"
            /\ path' = "no_session"
       ELSE /\ spc' = "nav"
            /\ UNCHANGED path
    /\ UNCHANGED <<env, apc, acqLocals, exc, acqHistory, result, acqCalls,
                   acqUrl, pageCalls, navAttempts, rows, csv, backup>>

\* Isaco, IKCO Part: await page.goto(START_URL, wait_until="networkidle", ...)
\* inside try; a failure is caught by "except Exception" and logged.
\* (A call on a None page raises AttributeError, caught the same way.)
ScrapeNav ==
    /\ spc = "nav"
    /\ site # "sapia_stopyadak"
    /\ pageCalls' = pageCalls + 1
    /\ navAttempts' = navAttempts + 1
    /\ \/ /\ result.page # None
          /\ spc' = "extract"
          /\ UNCHANGED path
       \/ /\ spc' = "finally"
          /\ path' = "nav_exception"
    /\ UNCHANGED <<env, apc, acqLocals, exc, acqHistory, result, acqCalls,
                   acqUrl, rows, csv, backup>>

MayRetryOnceMore(n) == n <= NavRetries

\* for attempt in range(3): there is another attempt after n of them
MayRetry(n) == n < NavRetries

\* Saipa: for attempt in range(3): try goto + wait_for_selector, break;
\* except PWTimeout / Exception: sleep(5); else: return
ScrapeNavRetry ==
    /\ spc = "nav"
    /\ site = "sapia_stopyadak"
    /\ IF MayRetry(navAttempts)
       THEN /\ pageCalls' = pageCalls + 1
            /\ navAttempts' = navAttempts + 1
            /\ \/ /\ result.page # None
                  /\ spc' = "extract"
               \/ UNCHANGED spc
            /\ UNCHANGED path
       ELSE /\ spc' = "finally"
            /\ path' = "retries_exhausted"
            /\ UNCHANGED <<pageCalls, navAttempts>>
    /\ UNCHANGED <<env, apc, acqLocals, exc, acqHistory, result, acqCalls,
                   acqUrl, rows, csv, backup>>

\* The selector queries and loops that fill all_data; an exception outside
\* the per-item handlers ends the try block with the rows appended so far.
ScrapeExtract ==
    /\ spc = "extract"
    /\ pageCalls' = pageCalls + 1
    /\ \E n \in 0..MaxRows :
          /\ rows' = n
          /\ \/ /\ spc' = "save"
                /\ UNCHANGED path
             \/ /\ spc' = "finally"
                /\ path' = "extract_exception"
    /\ UNCHANGED <<env, apc, acqLocals, exc, acqHistory, result, acqCalls,
                   acqUrl, navAttempts, csv, backup>>

\* if all_data: save_to_csv(all_data, prefix) ... else: logger.warning(...)
ScrapeSave ==
    /\ spc = "save"
    /\ IF rows > 0
       THEN \/ /\ csv' = TRUE
               /\ spc' = "backup"
               /\ UNCHANGED path
            \/ /\ spc' = "finally"
               /\ path' = "save_exception"
               /\ UNCHANGED csv
       ELSE /\ spc' = "finally"
            /\ path' = "normal"
            /\ UNCHANGED csv
    /\ UNCHANGED <<env, apc, acqLocals, exc, acqHistory, result, acqCalls,
                   acqUrl, pageCalls, navAttempts, rows, backup>>

\* backup_dir.mkdir(exist_ok=True); shutil.copy(csv_path, backup_dir / ...)
ScrapeBackup ==
    /\ spc = "backup"
    /\ spc' = "finally"
    /\ \/ /\ backup' = TRUE
          /\ path' = "normal"
       \/ /\ path' = "backup_exception"
          /\ UNCHANGED backup
    /\ UNCHANGED <<env, apc, acqLocals, exc, acqHistory, result, acqCalls,
                   acqUrl, pageCalls, navAttempts, rows, csv>>

FinallyClosesNever(ctx) == FALSE

FinallyClosesOnlyOnSuccess(ctx) == ctx # None /\ path = "normal"

\* if context and context.browser:
FinallyCloses(ctx) == ctx # None

\* finally: if context and context.browser: await context.browser.close()
\* then the summary (or, for Saipa's early return, the return).  A close that
\* raises leaves scrape() with that exception.
ScrapeFinally ==
    /\ spc = "finally"
    /\ IF FinallyCloses(result.context)
       THEN /\ closes' = [closes EXCEPT ![result.context] = @ + 1]
            /\ open' = open \ {<<site, result.context>>}
            /\ pageCalls' = pageCalls + 1
            /\ \/ /\ spc' = IF path = "retries_exhausted" THEN "returned" ELSE "done"
                  /\ UNCHANGED exc
               \/ /\ spc' = "raised"
                  /\ exc' = "Error"
       ELSE /\ spc' = IF path = "retries_exhausted" THEN "returned" ELSE "done"
            /\ UNCHANGED <<closes, open, pageCalls, exc>>
    /\ UNCHANGED <<env, apc, acqLocals, tried, outcome, result,
                   acqCalls, acqUrl, navAttempts, rows, csv, backup, path>>

Next ==
    \/ ScrapeAcquire
    \/ AcqFor
    \/ AcqLaunch
    \/ AcqNewContext
    \/ AcqNewPage
    \/ AcqAddInitScript
    \/ AcqDelay
    \/ AcqGoto
    \/ AcqTitle
    \/ AcqBody
    \/ AcqInspect
    \/ AcqExcept
    \/ ScrapeCheck
    \/ ScrapeNav
    \/ ScrapeNavRetry
    \/ ScrapeExtract
    \/ ScrapeSave
    \/ ScrapeBackup
    \/ ScrapeFinally

Spec == Init /\ [][Next]_vars

\* ------------------------------------------------------------------------
\* Type invariant
\* ------------------------------------------------------------------------
TypeOK ==
    /\ site \in Sites \cup {NoSite}
    /\ i \in 0..Len(engines)
    /\ browser \in 0..Len(engines)
    /\ scripts \in 0..NumInitScripts
    /\ exc \in {NoException, "PWTimeout", "Error", "NameError"}
    /\ result.page \in 0..Len(engines)
    /\ result.context = result.page
    /\ rows \in 0..MaxRows
    /\ navAttempts \in 0..NavRetries

\* ------------------------------------------------------------------------
\* Properties of the acquirer
\* ------------------------------------------------------------------------
Positions == 1..Len(engines)

\* the attempt at position k has failed
Failed(k) == outcome[k] \notin {"untried", "ok"}

\* the attempt at position k has failed and its except clause has run
Handled(k) == Failed(k) /\ ~(k = i /\ apc = "except")

\* the attempt at position k got a browser from launch
Launched(k) == outcome[k] \notin {"untried", "launch_failed"}

\* C1: the engines whose launch was attempted are always an initial part of
\* the list, in list order (none skipped, none retried); and when the
\* acquirer has returned with every attempt failed, all N engines were tried
\* and the result is (None, None).
C1_ExhaustionTriesAllInOrder ==
    /\ Len(tried) <= Len(engines)
    /\ tried = SubSeq(engines, 1, Len(tried))
    /\ (apc = "returned" /\ \A k \in Positions : outcome[k] # "ok")
          => /\ tried = engines
             /\ \A k \in Positions : Failed(k)
             /\ result = NoSession

C1_Witness ==
    /\ apc = "returned"
    /\ Len(engines) = 3
    /\ outcome = <<"launch_failed", "timeout", "blocked">>
    /\ tried = engines
    /\ result = NoSession

\* C2: once the attempt at position k has succeeded, the acquirer has
\* returned the page and context of engine k's browser, every earlier attempt
\* has failed, and exactly the engines 1..k were launched (none after k).
C2_FirstSuccessReturnsItsSession ==
    \A k \in Positions :
        outcome[k] = "ok"
            => /\ apc = "returned"
               /\ result = Session(k)
               /\ \A j \in 1..(k - 1) : Failed(j)
               /\ tried = SubSeq(engines, 1, k)
               /\ \A j \in (k + 1)..Len(engines) : outcome[j] = "untried"

C2_Witness ==
    /\ Len(engines) = 3
    /\ outcome = <<"timeout", "ok", "untried">>
    /\ apc = "returned"
    /\ result = Session(2)
    /\ tried = <<engines[1], engines[2]>>

\* C3: an attempt whose title contains CLOUDFLARE_TITLE is classified as
\* blocked whatever the body is: the inspection raises, and returns no session.
C3_TitleMatchBlocks ==
    [][ (apc = "inspect" /\ Contains(title, CLOUDFLARE_TITLE))
          => (apc' = "except" /\ outcome'[i] = "blocked" /\ result' = NoSession) ]_vars

C3_Witness ==
    /\ apc = "except"
    /\ outcome[i] = "blocked"
    /\ Contains(title, CLOUDFLARE_TITLE)
    /\ body # NoBody
    /\ Len(BodyText(body)) >= MinBodyLen
    /\ ~Contains(Lower(BodyText(body)), CheckingYourBrowser)

\* C4: an attempt whose body text is shorter than MinBodyLen characters (a
\* missing body counting as empty) is classified as blocked, also when neither
\* the title nor the body holds a block phrase.
C4_ShortBodyBlocks ==
    [][ (apc = "inspect" /\ Len(BodyOrEmpty(body)) < MinBodyLen)
          => (apc' = "except" /\ outcome'[i] = "blocked" /\ result' = NoSession) ]_vars

C4_Witness ==
    /\ apc = "except"
    /\ outcome[i] = "blocked"
    /\ title = TitleShop
    /\ ~Contains(Lower(title), Lower(CLOUDFLARE_TITLE))
    /\ ~Contains(Lower(title), JustAMoment)
    /\ body # NoBody
    /\ Len(BodyText(body)) = MinBodyLen - 1
    /\ ~Contains(Lower(BodyText(body)), CheckingYourBrowser)

\* C5 (as claimed): browser.close is invoked exactly once for every failed
\* attempt, whatever the cause of the failure.
C5_ClosedOncePerFailedAttempt ==
    \A k \in Positions : Handled(k) => closes[k] = 1

\* C5 (amended): browser.close is invoked exactly once for every failed
\* attempt whose launch succeeded, also when the close call itself raises
\* (the loop then goes on as usual), and is not invoked for an attempt whose
\* launch failed.
C5_ClosedOncePerLaunchedFailedAttempt ==
    /\ \A k \in Positions :
          Handled(k) => closes[k] = (IF Launched(k) THEN 1 ELSE 0)
    /\ \A k \in Positions : (k = i /\ apc = "except") => closes[k] = 0
    /\ closing = "raised" => (apc = "for" /\ exc = NoException /\ closes[i] = 1)

C5_Witness ==
    /\ Len(engines) = 3
    /\ apc = "for"
    /\ i = 3
    /\ closing = "raised"
    /\ outcome = <<"launch_failed", "context_failed", "blocked">>
    /\ closes = <<0, 1, 1>>

\* C6: when the launch of an engine has been attempted, the browser of every
\* earlier attempt that launched one has had close invoked exactly once (the
\* call has returned or raised); so a session comes from a later engine only
\* after the earlier browsers were closed.
C6_ClosedBeforeNextLaunch ==
    \A k \in Positions :
        k <= Len(tried)
            => \A j \in 1..(k - 1) : Launched(j) => (Handled(j) /\ closes[j] = 1)

C6_Witness ==
    /\ Len(engines) = 2
    /\ outcome = <<"timeout", "ok">>
    /\ closes = <<1, 0>>
    /\ apc = "returned"
    /\ result = Session(2)

\* C7: no exception of an attempt leaves the acquirer: the except clause
\* handles every one of them the same way, by going back to the loop header
\* with nothing raised and nothing returned, and scrape() never sees an
\* exception from the acquirer.
C7_NoErrorPropagates ==
    /\ [](apc # "raised" /\ path # "acquirer_raised")
    /\ [][ apc = "except"
             => (apc' = "for" /\ exc' = NoException /\ spc' = spc /\ i' = i
                 /\ result' = NoSession) ]_vars

C7_Witness ==
    /\ Len(engines) = 3
    /\ outcome = <<"blocked", "launch_failed", "timeout">>
    /\ apc = "returned"
    /\ spc = "acquire"
    /\ result = NoSession
    /\ exc = NoException

\* ------------------------------------------------------------------------
\* Properties of scrape()
\* ------------------------------------------------------------------------
Exited == spc \in {"done", "returned", "raised"}

\* C8: when the acquirer has returned (None, None), scrape() does nothing
\* but return: it never uses the page or context, extracts no row and writes
\* neither CSV nor backup.
C8_NoSessionAborts ==
    (apc = "returned" /\ result = NoSession)
        => /\ spc \in {"acquire", "returned"}
           /\ spc = "returned" => path = "no_session"
           /\ pageCalls = 0
           /\ navAttempts = 0
           /\ rows = 0
           /\ ~csv
           /\ ~backup
           /\ \A k \in Positions : closes[k] <= 1

C8_Witness ==
    /\ site \in {"isaco", "sapia_stopyadak"}
    /\ apc = "returned"
    /\ result = NoSession
    /\ spc = "returned"
    /\ path = "no_session"
    /\ pageCalls = 0

\* C9: when scrape() has exited after obtaining a session, close has been
\* invoked (once) on the session's browser, whatever the exit path.
C9_SessionClosedOnEveryExit ==
    (Exited /\ result # NoSession) => closes[result.context] = 1

C9_Witness ==
    /\ site = "sapia_stopyadak"
    /\ spc = "returned"
    /\ path = "retries_exhausted"
    /\ navAttempts = NavRetries
    /\ result # NoSession
    /\ closes[result.context] = 1

\* C10: every scrape(), once past its acquisition step, has invoked
\* launch_browser_with_fallback exactly once, with its own START_URL, and it
\* uses no page before that.
C10_AcquirerInvokedOnce ==
    /\ acqCalls <= 1
    /\ pageCalls > 0 => acqCalls = 1
    /\ spc # "start" => (acqCalls = 1 /\ acqUrl = START_URL(site))

\* C15: the calls of an engine attempt are made in the order launch,
\* new_context, new_page, the five add_init_script, wait_for_timeout, goto,
\* title, text_content, inspection: what an attempt has called is always an
\* initial part of that sequence, so every script injection precedes the
\* navigation and an attempt navigates at most once.
AttemptOrder ==
    <<"launch", "new_context", "new_page", "add_init_script", "add_init_script",
      "add_init_script", "add_init_script", "add_init_script", "wait_for_timeout",
      "goto", "title", "text_content", "inspect">>

C15_AttemptStepsInOrder ==
    /\ Len(steps) <= Len(AttemptOrder)
    /\ steps = SubSeq(AttemptOrder, 1, Len(steps))
    /\ apc \in {"goto", "title", "text_content", "inspect"} => scripts = 5
    /\ Cardinality({k \in 1..Len(steps) : steps[k] = "goto"}) <= 1

C15_Witness ==
    /\ apc = "except"
    /\ i = 2
    /\ outcome = <<"timeout", "blocked">>
    /\ steps = AttemptOrder
    /\ scripts = 5

\* C16: only Saipa's scrape() navigates more than once after the
\* acquisition; it makes at most 3 attempts, goes on to the extraction right
\* after the first one that succeeds, never invokes the acquirer again nor
\* changes its session while it retries, and after 3 failed attempts it exits
\* with no row extracted, nothing saved and the browser closed.
C16_OnlySaipaRetriesNavigation ==
    /\ [](/\ acqCalls <= 1
          /\ navAttempts <= (IF site = "sapia_stopyadak" THEN 3 ELSE 1)
          /\ spc \in {"extract", "save", "backup"} => navAttempts >= 1
          /\ path = "retries_exhausted"
                => /\ site = "sapia_stopyadak"
                   /\ navAttempts = 3
                   /\ rows = 0 /\ ~csv /\ ~backup
                   /\ spc \in {"finally", "returned", "raised"}
                   /\ Exited => closes[result.context] = 1)
    /\ [][ /\ spc = "nav"
                => (result' = result /\ tried' = tried /\ acqCalls' = acqCalls
                    /\ apc' = apc)
           /\ spc # "nav" => navAttempts' = navAttempts ]_vars

C16_Witness ==
    /\ site = "sapia_stopyadak"
    /\ path = "retries_exhausted"
    /\ spc = "returned"
    /\ navAttempts = 3
    /\ acqCalls = 1
    /\ Len(tried) = 2
    /\ result = Session(2)
    /\ rows = 0
    /\ ~csv

\* ------------------------------------------------------------------------
\* The programs that run the scrapers: cli_menu.py, run_scrapers.py,
\* scheduler.py
\* ------------------------------------------------------------------------
\* cli_menu.SCRAPERS, by module
SCRAPERS == <<"isaco", "ikcopart", "sapia_stopyadak">>

\* the awaits of run_scrapers.main, in order
MainOrder == <<"ikcopart", "isaco", "sapia_stopyadak">>

\* the awaits of scheduler.daily_job, in order
DailyOrder == <<"isaco", "ikcopart", "sapia_stopyadak">>

Digits == <<"0", "1", "2", "3", "4", "5", "6", "7", "8", "9">>

IsDigit(c) == \E d \in 1..Len(Digits) : Digits[d] = c

DigitValue(c) == (CHOOSE d \in 1..Len(Digits) : Digits[d] = c) - 1

\* str.strip(): without the leading and trailing blanks
RECURSIVE Strip(_)
Strip(s) ==
    IF s = <<>> THEN s
    ELSE IF Head(s) = " " THEN Strip(Tail(s))
    ELSE IF s[Len(s)] = " " THEN Strip(SubSeq(s, 1, Len(s) - 1))
    ELSE s

RECURSIVE DecimalValue(_)
DecimalValue(s) ==
    IF s = <<>> THEN 0
    ELSE 10 * DecimalValue(SubSeq(s, 1, Len(s) - 1)) + DigitValue(s[Len(s)])

\* int(choice): blanks around, an optional sign, then decimal digits; anything
\* else raises ValueError.  (Underscores between digits and non-ASCII digits,
\* which int() also accepts, are not among the inputs.)
PyInt(s) ==
    LET t == Strip(s)
        signed == t # <<>> /\ Head(t) \in {"+", "-"}
        digits == IF signed THEN Tail(t) ELSE t
    IN  IF digits # <<>> /\ \A k \in 1..Len(digits) : IsDigit(digits[k])
        THEN [ok |-> TRUE,
              val |-> IF signed /\ Head(t) = "-" THEN 0 - DecimalValue(digits)
                      ELSE DecimalValue(digits)]
        ELSE [ok |-> FALSE, val |-> 0]

\* seq[idx] as Python indexes a list: from the end when idx is negative
PyIndex(seq, idx) == IF idx < 0 THEN seq[Len(seq) + idx + 1] ELSE seq[idx + 1]

InRangeForgetsNegative(idx) == idx < Len(SCRAPERS) /\ 0 - idx <= Len(SCRAPERS)

\* if 0 <= idx < len(SCRAPERS):
InRange(idx) == 0 <= idx /\ idx < Len(SCRAPERS)

\* What is typed: as sys.argv[1], or at the menu prompt.
ArgvInputs ==
    { <<>>, <<"0">>, <<"a">>, <<"A">>, <<"a", "l", "l">>, <<"1">>, <<"2">>, <<"3">>,
      <<"4">>, <<"-", "1">>, <<"0", "0">>, <<"x">>, <<"1", ".", "5">>, <<" ", "3">> }

MenuInputs ==
    { <<" ">>, <<" ", "A", "L", "L", " ">>, <<"+", "2">>, <<" ", "1", " ">>, <<"1", "0">>, <<"3", "a">> }

\* choice = sys.argv[1].lower()   /   input(...).strip().lower()
CliChoices ==
    {Lower(r) : r \in ArgvInputs} \cup {Lower(Strip(r)) : r \in MenuInputs}

\* The locals of a fresh call of scrape(), and of the acquirer it will call.
FreshCall ==
    /\ apc' = "idle"
    /\ i' = 0
    /\ browser' = None
    /\ scripts' = 0
    /\ title' = NoTitle
    /\ body' = NoBody
    /\ closing' = "none"
    /\ exc' = NoException
    /\ tried' = <<>>
    /\ outcome' = [k \in 1..Len(engines) |-> "untried"]
    /\ closes' = [k \in 1..Len(engines) |-> 0]
    /\ result' = NoSession
    /\ acqCalls' = 0
    /\ acqUrl' = ""
    /\ pageCalls' = 0
    /\ navAttempts' = 0
    /\ rows' = 0
    /\ csv' = FALSE
    /\ backup' = FALSE
    /\ path' = "running"
    /\ steps' = <<>>

callVars == <<apc, i, browser, scripts, title, body, closing, exc, tried, outcome,
              closes, result, acqCalls, acqUrl, pageCalls, navAttempts, rows, csv,
              backup, path, steps>>

\* One of the three programs is started, with the configured engine list.
InitOrch ==
    /\ \/ /\ orch = "cli_menu.main"
          /\ choice \in CliChoices
          /\ plan = <<>>
          /\ opc = "dispatch"
       \/ /\ orch = "run_scrapers.main"
          /\ choice = NoChoice
          /\ plan = MainOrder
          /\ opc = "loop"
       \/ /\ orch = "scheduler.daily_job"
          /\ choice = NoChoice
          /\ plan = DailyOrder
          /\ opc = "loop"
    /\ opos = 0
    /\ started = <<>>
    /\ caught = 0
    /\ served = {}
    /\ AuxIdle
    /\ site = NoSite
    /\ engines = BROWSER_FALLBACK
    /\ spc = "idle"
    /\ apc = "idle"
    /\ i = 0
    /\ browser = None
    /\ scripts = 0
    /\ title = NoTitle
    /\ body = NoBody
    /\ closing = "none"
    /\ exc = NoException
    /\ tried = <<>>
    /\ outcome = [k \in 1..Len(engines) |-> "untried"]
    /\ closes = [k \in 1..Len(engines) |-> 0]
    /\ result = NoSession
    /\ acqCalls = 0
    /\ acqUrl = ""
    /\ pageCalls = 0
    /\ navAttempts = 0
    /\ rows = 0
    /\ csv = FALSE
    /\ backup = FALSE
    /\ path = "running"
    /\ steps = <<>>
    /\ open = {}

\* cli_menu.main, after the choice is read: Goodbye, run_all(), or
\* run_scraper(SCRAPERS[idx]), or a message.
OrchDispatch ==
    /\ opc = "dispatch"
    /\ IF choice = <<>> \/ choice = <<"0">>
       THEN /\ opc' = "exit"
            /\ UNCHANGED <<orch, plan>>
       ELSE IF choice = <<"a">> \/ choice = <<"a", "l", "l">>
       THEN /\ orch' = "cli_menu.run_all"
            /\ plan' = SCRAPERS
            /\ opc' = "loop"
       ELSE IF PyInt(choice).ok /\ InRange(PyInt(choice).val - 1)
       THEN /\ orch' = "cli_menu.run_scraper"
            /\ plan' = <<PyIndex(SCRAPERS, PyInt(choice).val - 1)>>
            /\ opc' = "loop"
       ELSE /\ opc' = "exit"
            /\ UNCHANGED <<orch, plan>>
    /\ UNCHANGED <<site, engines, spc, callVars, open, choice, opos, started, caught, served, auxVars>>

RunScraperCatchesNothing(o) == FALSE

\* the scraper is run through cli_menu.run_scraper: try ... except Exception
ThroughRunScraper(o) == o \in {"cli_menu.run_all", "cli_menu.run_scraper"}

\* The next scraper of the plan: await scrape(), a new call.  In
\* run_scraper the module is imported first, and an exception of the import
\* is caught there.
OrchRunScraper ==
    /\ opc = "loop"
    /\ opos < Len(plan)
    /\ \/ /\ site' = plan[opos + 1]
          /\ spc' = "start"
          /\ FreshCall
          /\ started' = Append(started, plan[opos + 1])
          /\ opc' = "running"
          /\ UNCHANGED <<opos, caught>>
       \/ /\ orch \in {"cli_menu.run_all", "cli_menu.run_scraper"}
          /\ IF ThroughRunScraper(orch)
             THEN /\ caught' = caught + 1
                  /\ opos' = opos + 1
                  /\ UNCHANGED opc
             ELSE /\ opc' = "aborted"
                  /\ UNCHANGED <<caught, opos>>
          /\ UNCHANGED <<site, spc, callVars, started>>
    /\ UNCHANGED <<engines, open, orch, choice, plan, served, auxVars>>

\* scrape() is left: by return, or by an exception, which run_scraper
\* catches and the other two programs do not.
OrchScraperExit ==
    /\ opc = "running"
    /\ Exited
    /\ spc' = "idle"
    /\ served' = IF result # NoSession THEN served \cup {site} ELSE served
    /\ IF spc # "raised"
       THEN /\ opos' = opos + 1
            /\ opc' = "loop"
            /\ UNCHANGED caught
       ELSE IF ThroughRunScraper(orch)
       THEN /\ caught' = caught + 1
            /\ opos' = opos + 1
            /\ opc' = "loop"
       ELSE /\ opc' = "aborted"
            /\ UNCHANGED <<opos, caught>>
    /\ UNCHANGED <<site, engines, callVars, open, orch, choice, plan, started, auxVars>>

\* After the last scraper: "ALL SCRAPERS COMPLETE." / "All scrapers
\* completed." / "DAILY SCRAPE FINISHED"; a single run_scraper just returns.
OrchFinish ==
    /\ opc = "loop"
    /\ opos = Len(plan)
    /\ opc' = IF orch = "cli_menu.run_scraper" THEN "exit" ELSE "complete"
    /\ UNCHANGED <<site, engines, spc, callVars, open, orch, choice, plan, opos,
                   started, caught, served, auxVars>>

NextOrch ==
    \/ OrchDispatch
    \/ OrchRunScraper
    \/ OrchScraperExit
    \/ OrchFinish
    \/ ScrapeAcquire
    \/ AcqFor
    \/ AcqLaunch
    \/ AcqNewContext
    \/ AcqNewPage
    \/ AcqAddInitScript
    \/ AcqDelay
    \/ AcqGoto
    \/ AcqTitle
    \/ AcqBody
    \/ AcqInspect
    \/ AcqExcept
    \/ ScrapeCheck
    \/ ScrapeNav
    \/ ScrapeNavRetry
    \/ ScrapeExtract
    \/ ScrapeSave
    \/ ScrapeBackup
    \/ ScrapeFinally

SpecOrch == InitOrch /\ [][NextOrch]_vars

\* ------------------------------------------------------------------------
\* Properties of the programs that run the scrapers
\* ------------------------------------------------------------------------
\* C11: during a run of run_all, run_scrapers.main or daily_job at most one
\* browser is launched and not yet closed at any moment, that browser belongs
\* to the scraper now running, and nothing is open when an engine is launched
\* or when no scraper is running: a scraper's browser is closed before the
\* next scraper launches any engine.
C11_OneBrowserAtATime ==
    orch \in {"cli_menu.run_all", "run_scrapers.main", "scheduler.daily_job"} =>
        /\ Cardinality(open) <= 1
        /\ \A o \in open : o[1] = site /\ opc = "running" /\ spc \notin {"idle", "start"}
        /\ apc = "launch" => open = {}
        /\ opc # "running" => open = {}

C11_Witness ==
    /\ orch = "cli_menu.run_all"
    /\ "isaco" \in served
    /\ started = SCRAPERS
    /\ open = {<<"sapia_stopyadak", 2>>}
    /\ closes[1] = 1
    /\ spc = "extract"

PlanIndex(s) == CHOOSE k \in 1..Len(plan) : plan[k] = s

\* C12: run_all goes through SCRAPERS in listing order (Isaco, IKCO Part,
\* Saipa Stopyadak); an exception of a scraper, or of its import, moves on to
\* the next scraper and never ends run_all; and run_all stops nowhere but
\* at its completion message, having gone through all three: wherever else
\* it is, a step is enabled (the inspection of the loaded page is one
\* conditional, which takes one of its two branches).
C12_RunAllRunsEveryScraper ==
    /\ [](orch = "cli_menu.run_all" =>
            /\ plan = <<"isaco", "ikcopart", "sapia_stopyadak">>
            /\ opc \in {"loop", "running", "complete"}
            /\ \A a, b \in 1..Len(started) :
                   a < b => PlanIndex(started[a]) < PlanIndex(started[b])
            /\ opc = "running" => site = plan[opos + 1] /\ started[Len(started)] = site
            /\ Len(started) <= opos + (IF opc = "running" THEN 1 ELSE 0)
            /\ opc = "complete" => opos = 3
            /\ opc = "complete" \/ apc = "inspect" \/ ENABLED NextOrch)
    /\ [][orch = "cli_menu.run_all" /\ opc = "running" /\ spc = "raised"
            => opc' = "loop" /\ opos' = opos + 1 /\ caught' = caught + 1]_vars

C12_Witness ==
    /\ orch = "cli_menu.run_all"
    /\ opc = "complete"
    /\ started = <<"isaco", "ikcopart", "sapia_stopyadak">>
    /\ caught >= 1
    /\ served = {"isaco", "sapia_stopyadak"}

\* C13: run_scrapers.main and daily_job are never ended by an exception, and
\* at their completion message all three scrapers have been started.
C13_AllThreeRunToCompletion ==
    orch \in {"run_scrapers.main", "scheduler.daily_job"} =>
        /\ opc # "aborted"
        /\ opc = "complete" => Len(started) = 3

\* the spellings, among the inputs, of the decimal numbers 1, 2 and 3
ChoicesDenoting(k) ==
    CASE k = 1 -> { <<"1">> }
      [] k = 2 -> { <<"2">>, <<"+", "2">> }
      [] k = 3 -> { <<"3">>, <<" ", "3">> }

ChoiceRuns ==
    IF choice \in { <<>>, <<"0">> } THEN <<>>
    ELSE IF choice \in { <<"a">>, <<"a", "l", "l">> }
    THEN <<"isaco", "ikcopart", "sapia_stopyadak">>
    ELSE IF choice \in ChoicesDenoting(1) THEN <<"isaco">>
    ELSE IF choice \in ChoicesDenoting(2) THEN <<"ikcopart">>
    ELSE IF choice \in ChoicesDenoting(3) THEN <<"sapia_stopyadak">>
    ELSE <<>>

\* C14: once cli_menu.main has dispatched on the choice, the scrapers it runs
\* are: none for an empty choice or '0'; all three for 'a' or 'all'; the k-th
\* listed one alone for a decimal k in 1..3 (3 is Saipa); none for any other
\* choice, and then main is over without a scraper started.
C14_DispatchOnChoice ==
    choice # NoChoice /\ opc # "dispatch" =>
        /\ plan = ChoiceRuns
        /\ \A k \in 1..Len(started) : \E n \in 1..Len(plan) : started[k] = plan[n]
        /\ Len(started) <= Len(plan)
        /\ plan = <<>> => opc = "exit" /\ started = <<>> /\ spc = "idle"
        /\ choice = <<"3">> => plan = <<"sapia_stopyadak">>

C14_Witness ==
    /\ choice = <<"3">>
    /\ orch = "cli_menu.run_scraper"
    /\ opc = "exit"
    /\ started = <<"sapia_stopyadak">>
    /\ served = {"sapia_stopyadak"}

\* ------------------------------------------------------------------------
\* scroll_and_load_all (Saipa) and scroll_and_load (IKCO Part): the same loop
\* ------------------------------------------------------------------------
\* every variable of scrape(), of the acquirer and of the orchestrators
coreVars == <<site, engines, spc, callVars, open, orchVars>>

\* the state in which no scraper and no orchestrator is running
CoreIdle ==
    /\ site = NoSite
    /\ engines = BROWSER_FALLBACK
    /\ spc = "idle"
    /\ apc = "idle"
    /\ i = 0
    /\ browser = None
    /\ scripts = 0
    /\ title = NoTitle
    /\ body = NoBody
    /\ closing = "none"
    /\ exc = NoException
    /\ tried = <<>>
    /\ outcome = [k \in 1..Len(engines) |-> "untried"]
    /\ closes = [k \in 1..Len(engines) |-> 0]
    /\ result = NoSession
    /\ acqCalls = 0
    /\ acqUrl = ""
    /\ pageCalls = 0
    /\ navAttempts = 0
    /\ rows = 0
    /\ csv = FALSE
    /\ backup = FALSE
    /\ path = "running"
    /\ steps = <<>>
    /\ open = {}
    /\ orch = "none"
    /\ choice = NoChoice
    /\ plan = <<>>
    /\ opos = 0
    /\ opc = "idle"
    /\ started = <<>>
    /\ caught = 0
    /\ served = {}

ScrollFns == {"scroll_and_load_all", "scroll_and_load"}

\* prev_height = 0; stable_rounds = 0, on a page that will change its height
\* between two readings at most `budget` times.
InitScroll ==
    /\ CoreIdle
    /\ CardsIdle
    /\ DatesIdle
    /\ scrollFn \in ScrollFns
    /\ scrollPc = "loop"
    /\ prev_height = 0
    /\ stable_rounds = 0
    /\ scrolls = 0
    /\ obs = <<>>
    /\ budget \in 0..MaxChanges

KeepsScrollingTwoRounds(n) == n < 2

\* while stable_rounds < 3:
KeepsScrolling(n) == n < 3

\* One round: scroll to the bottom, wait, read document.body.scrollHeight,
\* compare it with prev_height.  The first reading is whatever the page's
\* height is; a later one differs from the reading before it only if the
\* page changed in between.
ScrollRound ==
    /\ scrollPc = "loop"
    /\ KeepsScrolling(stable_rounds)
    /\ scrolls' = scrolls + 1
    /\ \E cur_height \in 0..MaxHeight :
        /\ \/ obs = <<>> /\ UNCHANGED budget
           \/ obs # <<>> /\ cur_height = obs[Len(obs)] /\ UNCHANGED budget
           \/ obs # <<>> /\ cur_height # obs[Len(obs)] /\ budget > 0 /\ budget' = budget - 1
        /\ stable_rounds' = IF cur_height = prev_height THEN stable_rounds + 1 ELSE 0
        /\ prev_height' = cur_height
        /\ obs' = Append(obs, cur_height)
    /\ UNCHANGED <<coreVars, cardVars, dateVars, scrollFn, scrollPc>>

\* A page.evaluate or the wait raises: the exception leaves the function.
ScrollRaise ==
    /\ scrollPc = "loop"
    /\ KeepsScrolling(stable_rounds)
    /\ scrollPc' = "raised"
    /\ UNCHANGED <<coreVars, cardVars, dateVars, scrollFn, prev_height, stable_rounds,
                   scrolls, obs, budget>>

\* The loop test fails: "Scrolling complete", return.
ScrollReturn ==
    /\ scrollPc = "loop"
    /\ ~KeepsScrolling(stable_rounds)
    /\ scrollPc' = "done"
    /\ UNCHANGED <<coreVars, cardVars, dateVars, scrollFn, prev_height, stable_rounds,
                   scrolls, obs, budget>>

NextScroll ==
    \/ ScrollRound
    \/ ScrollRaise
    \/ ScrollReturn

SpecScroll == InitScroll /\ [][NextScroll]_vars

\* every call made in the loop returns or raises, and the loop goes on
SpecScrollFair == SpecScroll /\ WF_vars(NextScroll)

\* round k read the same height as the round before it (0 before round 1)
SameAsBefore(k) == obs[k] = (IF k = 1 THEN 0 ELSE obs[k - 1])

\* round k is the third in a row that read the same height as the one before
ThirdStable(k) == k >= 3 /\ SameAsBefore(k) /\ SameAsBefore(k - 1) /\ SameAsBefore(k - 2)

\* C17: the loop scrolls once per round; it returns exactly after the first
\* round that is the third in a row to read the height of the round before it
\* (0 before the first round; a different height starts the count again); and
\* on a page whose height stops changing the call always ends.
C17_ScrollStopsAfterThreeStableRounds ==
    /\ [](scrollPc # "idle" =>
            /\ scrolls = Len(obs)
            /\ prev_height = (IF obs = <<>> THEN 0 ELSE obs[Len(obs)])
            /\ \A k \in 1..(Len(obs) - 1) : ~ThirdStable(k)
            /\ scrollPc = "done" => ThirdStable(Len(obs))
            /\ (obs # <<>> /\ ~SameAsBefore(Len(obs))) => stable_rounds = 0
            /\ (Len(obs) >= 3 /\ ThirdStable(Len(obs))) <=> stable_rounds = 3)
    /\ [][scrollPc = "loop" /\ Len(obs) >= 3 /\ ThirdStable(Len(obs))
            => scrollPc' = "done" /\ obs' = obs /\ scrolls' = scrolls]_vars
    /\ (scrollPc = "loop" ~> scrollPc \in {"done", "raised"})

C17_Witness ==
    /\ scrollPc = "done"
    /\ obs = <<1, 1, 2, 2, 2, 2>>
    /\ scrolls = 6
    /\ budget = 0

\* ------------------------------------------------------------------------
\* The card loop of the Isaco scrape(): for idx, card in enumerate(cards, 1)
\* ------------------------------------------------------------------------
InitCards ==
    /\ CoreIdle
    /\ ScrollIdle
    /\ DatesIdle
    /\ nCards \in 0..MaxCards
    /\ cardIdx = 0
    /\ cardPc = "for"
    /\ tabs = {}
    /\ closedTabs = {}
    /\ failedCards = {}

\* an exception in the body of the card's try: except Exception logs it,
\* and the loop goes on to the next card
CardExcept ==
    /\ cardPc' = "for"
    /\ failedCards' = failedCards \cup {cardIdx}

\* for idx, card in enumerate(cards, 1):
CardFor ==
    /\ cardPc = "for"
    /\ IF cardIdx < nCards
       THEN /\ cardIdx' = cardIdx + 1
            /\ cardPc' = "link"
       ELSE /\ cardPc' = "done"
            /\ UNCHANGED cardIdx
    /\ UNCHANGED <<coreVars, scrollVars, dateVars, nCards, tabs, closedTabs, failedCards>>

\* link_elem = await card.query_selector('a'); no link: continue;
\* href = await link_elem.get_attribute("href")
CardLink ==
    /\ cardPc = "link"
    /\ \/ cardPc' = "new_page" /\ UNCHANGED failedCards
       \/ cardPc' = "for" /\ UNCHANGED failedCards
       \/ CardExcept
    /\ UNCHANGED <<coreVars, scrollVars, dateVars, nCards, cardIdx, tabs, closedTabs>>

\* new_page = await context.new_page()
CardNewPage ==
    /\ cardPc = "new_page"
    /\ \/ /\ tabs' = tabs \cup {cardIdx}
          /\ cardPc' = "goto"
          /\ UNCHANGED failedCards
       \/ /\ CardExcept
          /\ UNCHANGED tabs
    /\ UNCHANGED <<coreVars, scrollVars, dateVars, nCards, cardIdx, closedTabs>>

\* await new_page.goto(full_url, wait_until="networkidle", timeout=TIMEOUT)
CardGoto ==
    /\ cardPc = "goto"
    /\ \/ cardPc' = "click" /\ UNCHANGED failedCards
       \/ CardExcept
    /\ UNCHANGED <<coreVars, scrollVars, dateVars, nCards, cardIdx, tabs, closedTabs>>

\* await wait_and_click(new_page, SHOW_PRICE_BTN): a timeout is logged inside
\* wait_and_click, any other exception leaves it
CardClick ==
    /\ cardPc = "click"
    /\ \/ cardPc' = "wait_rows" /\ UNCHANGED failedCards
       \/ CardExcept
    /\ UNCHANGED <<coreVars, scrollVars, dateVars, nCards, cardIdx, tabs, closedTabs>>

\* await new_page.wait_for_selector(TABLE_ROW, timeout=30000)
CardWaitRows ==
    /\ cardPc = "wait_rows"
    /\ \/ cardPc' = "extract" /\ UNCHANGED failedCards
       \/ CardExcept
    /\ UNCHANGED <<coreVars, scrollVars, dateVars, nCards, cardIdx, tabs, closedTabs>>

\* rows = await new_page.query_selector_all(TABLE_ROW); for row in rows: ...
CardExtract ==
    /\ cardPc = "extract"
    /\ \/ cardPc' = "close" /\ UNCHANGED failedCards
       \/ CardExcept
    /\ UNCHANGED <<coreVars, scrollVars, dateVars, nCards, cardIdx, tabs, closedTabs>>

\* await new_page.close(); await asyncio.sleep(1)
CardClose ==
    /\ cardPc = "close"
    /\ tabs' = tabs \ {cardIdx}
    /\ closedTabs' = closedTabs \cup {cardIdx}
    /\ \/ cardPc' = "for" /\ UNCHANGED failedCards
       \/ CardExcept
    /\ UNCHANGED <<coreVars, scrollVars, dateVars, nCards, cardIdx>>

NextCards ==
    \/ CardFor
    \/ CardLink
    \/ CardNewPage
    \/ CardGoto
    \/ CardClick
    \/ CardWaitRows
    \/ CardExtract
    \/ CardClose

SpecCards == InitCards /\ [][NextCards]_vars

\* C18: at most one detail tab is open at any time, and none is open when
\* the loop turns to the next card or has ended, whether the card before
\* succeeded or failed.
C18_DetailTabClosedPerCard ==
    cardPc # "idle" =>
        /\ Cardinality(tabs) <= 1
        /\ cardPc \in {"for", "link", "new_page", "done"} => tabs = {}

\* ------------------------------------------------------------------------
\* The dates of one scrape(): `today`, the file save_to_csv writes, csv_path
\* ------------------------------------------------------------------------
IsLeap(y) == (y % 4 = 0 /\ y % 100 # 0) \/ y % 400 = 0

DaysInMonth(y, m) ==
    IF m = 2 THEN (IF IsLeap(y) THEN 29 ELSE 28)
    ELSE IF m \in {4, 6, 9, 11} THEN 30
    ELSE 31

\* the calendar date after d
NextDate(d) ==
    IF d.day < DaysInMonth(d.year, d.month) THEN Date(d.year, d.month, d.day + 1)
    ELSE IF d.month < 12 THEN Date(d.year, d.month + 1, 1)
    ELSE Date(d.year + 1, 1, 1)

\* the decimal digits of n, zero-padded to width w (%Y is 4 wide, %m and %d 2)
RECURSIVE Padded(_, _)
Padded(n, w) ==
    IF w = 0 THEN <<>>
    ELSE Append(Padded(n \div 10, w - 1), Digits[(n % 10) + 1])

\* datetime.now().strftime("%Y-%m-%d")
Strftime(d) ==
    Padded(d.year, 4) \o <<"-">> \o Padded(d.month, 2) \o <<"-">> \o Padded(d.day, 2)

\* output/{prefix}_{date}.csv
CsvFile(prefix, date) == <<prefix, date>>

\* dates on which a scrape() begins
StartDates ==
    { Date(2025, 11, 9), Date(2025, 12, 31), Date(2024, 2, 28), Date(2025, 2, 28) }

\* scrape() is called; output/ holds nothing of this scraper, or the file of
\* an earlier run of the same day.
InitDates ==
    /\ CoreIdle
    /\ ScrollIdle
    /\ CardsIdle
    /\ datePrefix \in Sites
    /\ datePc = "start"
    /\ clock \in StartDates
    /\ midnights = 0
    /\ today = NoDate
    /\ dateRows = 0
    /\ files \in { {}, {CsvFile(datePrefix, Strftime(clock))} }
    /\ written = NoFile
    /\ reported = NoFile
    /\ copied = NoFile

\* today = get_current_date_str()
DateStart ==
    /\ datePc = "start"
    /\ today' = Strftime(clock)
    /\ datePc' = "collect"
    /\ UNCHANGED <<coreVars, scrollVars, cardVars, datePrefix, clock, midnights,
                   dateRows, files, written, reported, copied>>

\* Midnight passes while the scrape is collecting its rows.
DateMidnight ==
    /\ datePc = "collect"
    /\ midnights < MaxMidnights
    /\ clock' = NextDate(clock)
    /\ midnights' = midnights + 1
    /\ UNCHANGED <<coreVars, scrollVars, cardVars, datePrefix, datePc, today,
                   dateRows, files, written, reported, copied>>

\* the rows are collected, each with "scrape_date": today; then
\* `if all_data:`, and without data nothing is saved
DateCollect ==
    /\ datePc = "collect"
    /\ \E n \in 0..MaxRows :
        /\ dateRows' = n
        /\ datePc' = IF n > 0 THEN "save" ELSE "done"
    /\ UNCHANGED <<coreVars, scrollVars, cardVars, datePrefix, clock, midnights,
                   today, files, written, reported, copied>>

\* csv_path = OUTPUT_DIR / f"{prefix}_{today}.csv"; save_to_csv(all_data,
\* prefix), which names the file by datetime.now(); "SAVED ... -> csv_path"
DateSave ==
    /\ datePc = "save"
    /\ reported' = CsvFile(datePrefix, today)
    /\ written' = CsvFile(datePrefix, Strftime(clock))
    /\ files' = files \cup {CsvFile(datePrefix, Strftime(clock))}
    /\ datePc' = "copy"
    /\ UNCHANGED <<coreVars, scrollVars, cardVars, datePrefix, clock, midnights,
                   today, dateRows, copied>>

\* shutil.copy(csv_path, backup_dir / ...): FileNotFoundError if csv_path is
\* not there
DateCopy ==
    /\ datePc = "copy"
    /\ IF reported \in files
       THEN /\ copied' = reported
            /\ datePc' = "done"
       ELSE /\ datePc' = "raised"
            /\ UNCHANGED copied
    /\ UNCHANGED <<coreVars, scrollVars, cardVars, datePrefix, clock, midnights,
                   today, dateRows, files, written, reported>>

NextDates ==
    \/ DateStart
    \/ DateMidnight
    \/ DateCollect
    \/ DateSave
    \/ DateCopy

SpecDates == InitDates /\ [][NextDates]_vars

\* C19: once a scraper with at least one row has saved, the file it reports
\* and copies to backups/ is the file save_to_csv wrote, the copy succeeds,
\* and the date in that file's name is the scrape_date of the rows, also when
\* midnight passed during the scrape.
C19_ReportedFileIsWrittenFile ==
    (dateRows > 0 /\ datePc \in {"copy", "done", "raised"}) =>
        /\ reported = written
        /\ written[2] = today
        /\ datePc # "raised"
        /\ datePc = "done" => copied = written

====
